---- MODULE Spec2Model ----
(***************************************************************************)
(* Model of the intersection and light-transport core of RTIOW-rust:       *)
(*   src/src/hittable.rs  - HitRecord, HittableList (hit, bounding_box)    *)
(*   src/src/material.rs  - schlick, Lambertian, Metal, Dielectric,        *)
(*                          DiffuseLight (scatter, emitted)                *)
(*   src/src/src/ray.rs   - Ray                                            *)
(*                                                                         *)
(* Reals are modelled exactly by integers over stated denominators: a      *)
(* vector <<x, y, z>> "over d" stands for (x/d, y/d, z/d).                  *)
(***************************************************************************)
EXTENDS Integers, Sequences, FiniteSets

VARIABLES list, wk, mat

vars == <<list, wk, mat>>

(***************************************************************************)
(* Bounds of the model.                                                    *)
(***************************************************************************)
\* longest list of children built by push
MaxList == 3
\* largest t_max a caller passes to hit
MaxT == 3
\* denominator of the vectors a call is given
Den == 3
\* longest ray direction, in unit vectors
MaxLen == 2
\* denominator of the uniform samples of [0, 1)
SampleDen == 4
\* denominator of a metal's fuzz
FuzzDen == 2

\* Option<T>
None == [some |-> FALSE]
Some(x) == [some |-> TRUE, val |-> x]

Min(a, b) == IF a <= b THEN a ELSE b
Max(a, b) == IF a >= b THEN a ELSE b

(***************************************************************************)
(* Part 1: hittable.rs                                                     *)
(*                                                                         *)
(* The children of a HittableList are trait objects; the shapes behind     *)
(* them live in other modules of the crate.  They are modelled as          *)
(* spheres centred on the z axis and planes perpendicular to it, hit by    *)
(* rays that run along the z axis, so that every intersection parameter    *)
(* is an integer.  A ray is [o, d]: origin (0,0,o), direction (0,0,d),     *)
(* d = 1 or d = -1.                                                        *)
(***************************************************************************)
Workers == {1, 2}

Sphere(c, r, m) == [kind |-> "sphere", c |-> c, r |-> r, material |-> m]
Plane(c, m) == [kind |-> "plane", c |-> c, r |-> 0, material |-> m]

\* the shapes a scene is built from
Prims == {Sphere(2, 1, "m1"), Sphere(3, 1, "m2"), Plane(1, "m3"), Plane(3, "m4")}

Rays == {[o |-> 0, d |-> 1], [o |-> 4, d |-> -1]}

\* Ray::point_at, along the z axis
point_at(r, t) == r.o + r.d * t

\* HitRecord::new; u and v play no part in the list's search and are left out
HitRecord(t, p, normal, front_face, material) ==
    [t |-> t, p |-> p, normal |-> normal, front_face |-> front_face,
     material |-> material]

\* the record a shape builds for root t: front_face from the sign of
\* dot(direction, outward normal), the normal turned against the ray
PrimRecord(prim, r, t) ==
    LET p == point_at(r, t)
        outward == IF prim.kind = "sphere" THEN (p - prim.c) \div prim.r ELSE 1
        front == r.d * outward < 0
    IN HitRecord(t, p, IF front THEN outward ELSE -outward, front, prim.material)

\* the parameters at which the ray meets the shape
PrimRoots(prim, r) ==
    IF prim.kind = "sphere"
    THEN {(prim.c - r.o) * r.d - prim.r, (prim.c - r.o) * r.d + prim.r}
    ELSE {(prim.c - r.o) * r.d}

\* Hittable::hit of a shape: the nearest root inside the open interval
\* (t0, t1), or nothing
PrimHit(prim, r, t0, t1) ==
    LET inside == {t \in PrimRoots(prim, r) : t0 < t /\ t < t1}
    IN IF inside = {} THEN None
       ELSE Some(PrimRecord(prim, r, CHOOSE t \in inside : \A x \in inside : t <= x))

\* AABB, a min and a max corner
AABB(lo, hi) == [min |-> lo, max |-> hi]

\* AABB::merge: the smallest box enclosing both
merge(a, b) ==
    AABB([k \in 1..3 |-> Min(a.min[k], b.min[k])],
         [k \in 1..3 |-> Max(a.max[k], b.max[k])])

\* Hittable::bounding_box of a shape: a sphere is bounded, a plane is not
PrimBox(prim, t0, t1) ==
    IF prim.kind = "sphere"
    THEN Some(AABB(<<-prim.r, -prim.r, prim.c - prim.r>>,
                   <<prim.r, prim.r, prim.c + prim.r>>))
    ELSE None

\* a worker that is in no call
Idle ==
    [pc |-> "idle", op |-> "none", r |-> [o |-> 0, d |-> 1], t_min |-> 0,
     t_max |-> 0, i |-> 0, closest |-> 0, hit_obj |-> None, acc |-> None,
     q |-> <<0, 0, 0>>, ret |-> None]

\* HittableList::new
InitList ==
    /\ list = <<>>
    /\ wk = [w \in Workers |-> Idle]

\* HittableList::push takes &mut self: no shared borrow (no call) is live
push(item) ==
    /\ \A w \in Workers : wk[w].pc = "idle"
    /\ Len(list) < MaxList
    /\ list' = Append(list, item)
    /\ UNCHANGED <<wk, mat>>

\* HitCall with the bound started at "infinity" instead of the caller's t_max
HitCallUnbounded(w, r, t_min, t_max) ==
    /\ wk[w].pc = "idle"
    /\ wk' = [wk EXCEPT ![w] = [Idle EXCEPT !.pc = "scan", !.op = "hit", !.r = r,
                                   !.t_min = t_min, !.t_max = t_max, !.i = 1,
                                   !.closest = MaxT + 9, !.hit_obj = None]]
    /\ UNCHANGED <<list, mat>>

\* hit, entry: hit_obj = None, closest = t_max
HitCall(w, r, t_min, t_max) ==
    /\ wk[w].pc = "idle"
    /\ wk' = [wk EXCEPT ![w] = [Idle EXCEPT !.pc = "scan", !.op = "hit", !.r = r,
                                   !.t_min = t_min, !.t_max = t_max, !.i = 1,
                                   !.closest = t_max, !.hit_obj = None]]
    /\ UNCHANGED <<list, mat>>

\* HitStep with every child queried over (t_min, t_max): the bound never shrinks
HitStepNoShrink(w) ==
    /\ wk[w].pc = "scan"
    /\ wk[w].i <= Len(list)
    /\ LET s == wk[w]
           h == PrimHit(list[s.i], s.r, s.t_min, s.t_max)
       IN wk' = [wk EXCEPT ![w] =
                   [s EXCEPT !.i = s.i + 1,
                             !.q = <<s.i, s.t_min, s.t_max>>,
                             !.closest = IF h.some THEN h.val.t ELSE s.closest,
                             !.hit_obj = IF h.some THEN h ELSE s.hit_obj]]
    /\ UNCHANGED <<list, mat>>

\* HitStep that keeps the first hit it finds instead of the closest
HitStepFirstHit(w) ==
    /\ wk[w].pc = "scan"
    /\ wk[w].i <= Len(list)
    /\ LET s == wk[w]
           h == PrimHit(list[s.i], s.r, s.t_min, s.closest)
           take == h.some /\ ~s.hit_obj.some
       IN wk' = [wk EXCEPT ![w] =
                   [s EXCEPT !.i = s.i + 1,
                             !.q = <<s.i, s.t_min, s.closest>>,
                             !.closest = IF take THEN h.val.t ELSE s.closest,
                             !.hit_obj = IF take THEN h ELSE s.hit_obj]]
    /\ UNCHANGED <<list, mat>>

\* HitStep with the bound left one above the hit: a later child at the same t
\* replaces the current best
HitStepSlack(w) ==
    /\ wk[w].pc = "scan"
    /\ wk[w].i <= Len(list)
    /\ LET s == wk[w]
           h == PrimHit(list[s.i], s.r, s.t_min, s.closest)
       IN wk' = [wk EXCEPT ![w] =
                   [s EXCEPT !.i = s.i + 1,
                             !.q = <<s.i, s.t_min, s.closest>>,
                             !.closest = IF h.some THEN h.val.t + 1 ELSE s.closest,
                             !.hit_obj = IF h.some THEN h ELSE s.hit_obj]]
    /\ UNCHANGED <<list, mat>>

\* HitStep that moves the child it hit to the front of the shared list
HitStepMoveToFront(w) ==
    /\ wk[w].pc = "scan"
    /\ wk[w].i <= Len(list)
    /\ LET s == wk[w]
           h == PrimHit(list[s.i], s.r, s.t_min, s.closest)
       IN /\ wk' = [wk EXCEPT ![w] =
                      [s EXCEPT !.i = s.i + 1,
                                !.q = <<s.i, s.t_min, s.closest>>,
                                !.closest = IF h.some THEN h.val.t ELSE s.closest,
                                !.hit_obj = IF h.some THEN h ELSE s.hit_obj]]
          /\ list' = IF h.some
                     THEN <<list[s.i]>> \o SubSeq(list, 1, s.i - 1)
                                       \o SubSeq(list, s.i + 1, Len(list))
                     ELSE list
    /\ UNCHANGED mat

\* hit, one turn of the for loop; q records the call made to the child
HitStep(w) ==
    /\ wk[w].pc = "scan"
    /\ wk[w].i <= Len(list)
    /\ LET s == wk[w]
           h == PrimHit(list[s.i], s.r, s.t_min, s.closest)
       IN wk' = [wk EXCEPT ![w] =
                   [s EXCEPT !.i = s.i + 1,
                             !.q = <<s.i, s.t_min, s.closest>>,
                             !.closest = IF h.some THEN h.val.t ELSE s.closest,
                             !.hit_obj = IF h.some THEN h ELSE s.hit_obj]]
    /\ UNCHANGED <<list, mat>>

\* hit, after the loop: hit_obj is the result
HitReturn(w) ==
    /\ wk[w].pc = "scan"
    /\ wk[w].i > Len(list)
    /\ wk' = [wk EXCEPT ![w] = [wk[w] EXCEPT !.pc = "done", !.ret = wk[w].hit_obj]]
    /\ UNCHANGED <<list, mat>>

\* bounding_box, entry: the match on list.first() and on the first child's box
BoxCall(w, t0, t1) ==
    /\ wk[w].pc = "idle"
    /\ LET s == [Idle EXCEPT !.op = "bounding_box", !.t_min = t0, !.t_max = t1]
           first == IF Len(list) > 0 THEN PrimBox(list[1], t0, t1) ELSE None
       IN wk' = [wk EXCEPT ![w] =
                   IF first.some
                   THEN [s EXCEPT !.pc = "fold", !.i = 2, !.acc = first]
                   ELSE [s EXCEPT !.pc = "done", !.ret = None]]
    /\ UNCHANGED <<list, mat>>

\* BoxStep that skips a child without a box instead of giving up
BoxStepSkip(w) ==
    /\ wk[w].pc = "fold"
    /\ wk[w].i <= Len(list)
    /\ LET s == wk[w]
           b == PrimBox(list[s.i], s.t_min, s.t_max)
       IN wk' = [wk EXCEPT ![w] =
                   IF b.some
                   THEN [s EXCEPT !.i = s.i + 1,
                                  !.acc = Some(merge(s.acc.val, b.val))]
                   ELSE [s EXCEPT !.i = s.i + 1]]
    /\ UNCHANGED <<list, mat>>

\* bounding_box, one turn of try_fold over list.iter().skip(1)
BoxStep(w) ==
    /\ wk[w].pc = "fold"
    /\ wk[w].i <= Len(list)
    /\ LET s == wk[w]
           b == PrimBox(list[s.i], s.t_min, s.t_max)
       IN wk' = [wk EXCEPT ![w] =
                   IF b.some
                   THEN [s EXCEPT !.i = s.i + 1,
                                  !.acc = Some(merge(s.acc.val, b.val))]
                   ELSE [s EXCEPT !.pc = "done", !.acc = None, !.ret = None]]
    /\ UNCHANGED <<list, mat>>

\* bounding_box, end of try_fold: the accumulated box
BoxReturn(w) ==
    /\ wk[w].pc = "fold"
    /\ wk[w].i > Len(list)
    /\ wk' = [wk EXCEPT ![w] = [wk[w] EXCEPT !.pc = "done", !.ret = wk[w].acc]]
    /\ UNCHANGED <<list, mat>>

\* the caller takes the result; the borrow of the list ends
Finish(w) ==
    /\ wk[w].pc = "done"
    /\ wk' = [wk EXCEPT ![w] = Idle]
    /\ UNCHANGED <<list, mat>>

\* HittableList::hit as a function of the list, run alone
RECURSIVE HitFrom(_, _, _, _, _, _)
HitFrom(l, i, r, t_min, closest, hit_obj) ==
    IF i > Len(l) THEN hit_obj
    ELSE LET h == PrimHit(l[i], r, t_min, closest)
         IN IF h.some THEN HitFrom(l, i + 1, r, t_min, h.val.t, h)
            ELSE HitFrom(l, i + 1, r, t_min, closest, hit_obj)

HitList(l, r, t_min, t_max) == HitFrom(l, 1, r, t_min, t_max, None)

\* HittableList::bounding_box as a function of the list, run alone
RECURSIVE BoxFrom(_, _, _, _, _)
BoxFrom(l, i, acc, t0, t1) ==
    IF i > Len(l) THEN Some(acc)
    ELSE LET b == PrimBox(l[i], t0, t1)
         IN IF b.some THEN BoxFrom(l, i + 1, merge(acc, b.val), t0, t1) ELSE None

BoxList(l, t0, t1) ==
    IF Len(l) = 0 THEN None
    ELSE LET first == PrimBox(l[1], t0, t1)
         IN IF first.some THEN BoxFrom(l, 2, first.val, t0, t1) ELSE None

(***************************************************************************)
(* Part 2: material.rs                                                     *)
(*                                                                         *)
(* A vector is <<x, y, z>> over a denominator: directions and normals that *)
(* enter a call are over Den, and every operator states the denominator of *)
(* what it returns, so that the arithmetic is exact.  A scalar is a        *)
(* fraction [num, den].  A colour is a triple in halves.                   *)
(***************************************************************************)
Dot(a, b) == a[1] * b[1] + a[2] * b[2] + a[3] * b[3]
Add(a, b) == <<a[1] + b[1], a[2] + b[2], a[3] + b[3]>>
Sub(a, b) == <<a[1] - b[1], a[2] - b[2], a[3] - b[3]>>
Mul(a, k) == <<a[1] * k, a[2] * k, a[3] * k>>
Neg(a) == <<-a[1], -a[2], -a[3]>>

RECURSIVE Pow(_, _)
Pow(x, n) == IF n = 0 THEN 1 ELSE x * Pow(x, n - 1)

\* f64::sqrt on integers: the largest k <= hi with k * k <= n
ISqrt(n, hi) == CHOOSE k \in 0..hi : k * k <= n /\ (k = hi \/ (k + 1) * (k + 1) > n)

Frac(n, d) == [num |-> n, den |-> d]

Coords == (0 - Den)..Den
\* the vectors of length 1, over Den
UnitVecs == {v \in Coords \X Coords \X Coords : Dot(v, v) = Den * Den}
\* surface normals as the shapes hand them out (outward), one octant of them
Outward == {v \in UnitVecs : v[1] >= 0 /\ v[2] >= 0 /\ v[3] >= 0}
\* ray directions, over Den: a unit vector times a length
Directions == {Mul(v, k) : v \in UnitVecs, k \in 1..MaxLen}
\* Vec3::random_in_unit_sphere: a point inside the unit sphere, over Den
InUnitSphere ==
    {v \in Coords \X Coords \X Coords :
        /\ Dot(v, v) < Den * Den
        /\ Cardinality({k \in 1..3 : v[k] # 0}) <= 1}
\* dist.sample(rng): a uniform sample of [0, 1), over SampleDen
Samples == 0..(SampleDen - 1)

\* Colour::new(0.0, 0.0, 0.0) and Colour::new(1.0, 1.0, 1.0), in halves
Black == <<0, 0, 0>>
White == <<2, 2, 2>>

\* Ray::new (with the time sample material.rs passes on)
Ray(origin, direction, den, time) ==
    [origin |-> origin, direction |-> direction, den |-> den, time |-> time]

\* Vec3::normalise of a vector over Den: v / |v|, over Den
normalise(v) ==
    LET len == ISqrt(Dot(v, v), MaxLen * Den)
    IN <<(v[1] * Den) \div len, (v[2] * Den) \div len, (v[3] * Den) \div len>>

\* vec::reflect of v about n, both over Den: v - 2 * dot(v, n) * n, over Den^3
reflect(v, n) == Sub(Mul(v, Den * Den), Mul(n, 2 * Dot(v, n)))

\* vec::refract by Snell's law, uv and n unit vectors over Den, the ratio a
\* fraction: nothing when the discriminant 1 - ratio^2 * (1 - dt^2) is
\* negative, else ratio * (uv - n * dt) - n * sqrt(discriminant), over
\* ratio.den * Den^3
refract(uv, n, ni_over_nt) ==
    LET a == ni_over_nt.num
        b == ni_over_nt.den
        d4 == Pow(Den, 4)
        dt == Dot(uv, n)
        discriminant == b * b * d4 - a * a * (d4 - dt * dt)
    IN IF discriminant < 0 THEN None
       ELSE Some(Sub(Mul(Sub(Mul(uv, Den * Den), Mul(n, dt)), a),
                     Mul(n, ISqrt(discriminant, b * Den * Den))))

\* Texture::value(u, v, p) of a texture
TextureValue(tex, u, v, p) ==
    IF tex.kind = "constant" THEN tex.colour
    ELSE IF (u + v + Dot(p, <<1, 1, 1>>)) % 2 = 0 THEN tex.even ELSE tex.odd

Constant(c) == [kind |-> "constant", colour |-> c, even |-> c, odd |-> c]
Checker(e, o) == [kind |-> "checker", colour |-> e, even |-> e, odd |-> o]
Textures == {Constant(<<1, 1, 1>>), Checker(<<2, 0, 0>>, <<0, 0, 0>>)}

\* schlick with the angle term squared instead of raised to the fifth power
schlickSquare(cos, ior) ==
    LET r0n == (ior.den - ior.num) * (ior.den - ior.num)
        r0d == (ior.den + ior.num) * (ior.den + ior.num)
        d2 == Pow(cos.den, 2)
        x == Pow(cos.den - cos.num, 2)
    IN Frac(r0n * d2 + (r0d - r0n) * x, r0d * d2)

\* schlick(cos, ior): r0 = ((1 - ior) / (1 + ior))^2,
\* r0 + (1 - r0) * (1 - cos)^5
schlick(cos, ior) ==
    LET r0n == (ior.den - ior.num) * (ior.den - ior.num)
        r0d == (ior.den + ior.num) * (ior.den + ior.num)
        d5 == Pow(cos.den, 5)
        x == Pow(cos.den - cos.num, 5)
    IN Frac(r0n * d5 + (r0d - r0n) * x, r0d * d5)

\* the materials: Lambertian::new, Metal::new, Dielectric::new,
\* DiffuseLight::new.  fuzz is over FuzzDen, ior a fraction.
Lambertian(albedo) == [kind |-> "Lambertian", albedo |-> albedo]
Metal(albedo, fuzz) == [kind |-> "Metal", albedo |-> albedo, fuzz |-> fuzz]
Dielectric(ior) == [kind |-> "Dielectric", ior |-> ior]
DiffuseLight(emit) == [kind |-> "DiffuseLight", emit |-> emit]

Iors == {Frac(1, 1), Frac(3, 2), Frac(2, 1)}

\* the hit records handed to a material: u, v, p, the normal turned against
\* the ray and front_face, from the shape's outward normal
MatRecord(u, v, p, dir, outward) ==
    LET front == Dot(dir, outward) < 0
    IN [u |-> u, v |-> v, p |-> p, front_face |-> front,
        normal |-> IF front THEN outward ELSE Neg(outward)]

Surface == {<<0, 0, <<0, 0, 0>>>>, <<1, 0, <<Den, 0, 0>>>>}

\* Lambertian::scatter: direction normal + random_in_unit_sphere (over Den)
LambertianScatterOf(m, rec, ray, rnd, sample) ==
    LET scattered_ray == Ray(rec.p, Add(rec.normal, rnd), Den, ray.time)
        attenuation == TextureValue(m.albedo, rec.u, rec.v, rec.p)
    IN Some(<<scattered_ray, attenuation>>)

\* Metal::scatter: the test is on the mirror reflection; the scattered
\* direction reflected + random * fuzz is over Den^3 * FuzzDen
MetalScatterOf(m, rec, ray, rnd, sample) ==
    LET reflected_ray == reflect(normalise(ray.direction), rec.normal)
    IN IF Dot(reflected_ray, rec.normal) > 0
       THEN Some(<<Ray(rec.p,
                       Add(Mul(reflected_ray, FuzzDen), Mul(rnd, m.fuzz * Den * Den)),
                       Den * Den * Den * FuzzDen, ray.time),
                   m.albedo>>)
       ELSE None

\* sample < p, the sample over SampleDen
Below(sample, p) == sample * p.den < p.num * SampleDen

\* Dielectric::scatter with the ratio the wrong way round: ior entering,
\* 1 / ior leaving
DielectricScatterSwapped(m, rec, ray, rnd, sample) ==
    LET ni_over_nt == IF rec.front_face THEN m.ior
                      ELSE Frac(m.ior.den, m.ior.num)
        unit_direction == normalise(ray.direction)
        cos == Frac(Min(Dot(Neg(unit_direction), rec.normal), Den * Den), Den * Den)
        refracted == refract(unit_direction, rec.normal, ni_over_nt)
        reflected == Ray(rec.p, Mul(reflect(unit_direction, rec.normal), ni_over_nt.den),
                         ni_over_nt.den * Den * Den * Den, ray.time)
    IN IF refracted.some
       THEN IF Below(sample, schlick(cos, ni_over_nt))
            THEN Some(<<reflected, White>>)
            ELSE Some(<<Ray(rec.p, refracted.val, ni_over_nt.den * Den * Den * Den,
                            ray.time), White>>)
       ELSE Some(<<reflected, White>>)

\* Dielectric::scatter.  Both outcomes are written over ni_over_nt.den * Den^3.
DielectricScatterOf(m, rec, ray, rnd, sample) ==
    LET ni_over_nt == IF rec.front_face THEN Frac(m.ior.den, m.ior.num)
                      ELSE m.ior
        unit_direction == normalise(ray.direction)
        cos == Frac(Min(Dot(Neg(unit_direction), rec.normal), Den * Den), Den * Den)
        refracted == refract(unit_direction, rec.normal, ni_over_nt)
        reflected == Ray(rec.p, Mul(reflect(unit_direction, rec.normal), ni_over_nt.den),
                         ni_over_nt.den * Den * Den * Den, ray.time)
    IN IF refracted.some
       THEN IF Below(sample, schlick(cos, ni_over_nt))
            THEN Some(<<reflected, White>>)
            ELSE Some(<<Ray(rec.p, refracted.val, ni_over_nt.den * Den * Den * Den,
                            ray.time), White>>)
       ELSE Some(<<reflected, White>>)

\* DiffuseLight::scatter
DiffuseLightScatterOf(m, rec, ray, rnd, sample) == None

\* Lambertian::emitted that hands back its albedo
LambertianEmittedAlbedo(m, u, v, p) == TextureValue(m.albedo, u, v, p)

\* Lambertian::emitted, Metal::emitted, Dielectric::emitted
LambertianEmittedOf(m, u, v, p) == Black
MetalEmittedOf(m, u, v, p) == Black
DielectricEmittedOf(m, u, v, p) == Black
\* DiffuseLight::emitted
DiffuseLightEmittedOf(m, u, v, p) == TextureValue(m.emit, u, v, p)

\* a call of Material::scatter on m: everything the call is given, and ret
ScatterCall(m, s, dir, outward, time, rnd, sample, ret) ==
    /\ mat.pc = "idle"
    /\ mat' = [pc |-> "scatter", m |-> m,
               rec |-> MatRecord(s[1], s[2], s[3], dir, outward),
               ray |-> Ray(s[3], dir, Den, time), rnd |-> rnd, sample |-> sample,
               ret |-> ret]
    /\ UNCHANGED <<list, wk>>

\* a call of Material::emitted on m
EmittedCall(m, s, ret) ==
    /\ mat.pc = "idle"
    /\ mat' = [pc |-> "emitted", m |-> m, u |-> s[1], v |-> s[2], p |-> s[3],
               ret |-> ret]
    /\ UNCHANGED <<list, wk>>

\* the ray and the record a scatter call is given
ScatterArgs(s, dir, outward, time) ==
    [rec |-> MatRecord(s[1], s[2], s[3], dir, outward),
     ray |-> Ray(s[3], dir, Den, time)]

LambertianScatter ==
    /\ mat.pc = "idle"
    /\ \E tex \in Textures, s \in Surface, outward \in Outward, rnd \in InUnitSphere :
        LET a == ScatterArgs(s, outward, outward, 0)
        IN ScatterCall(Lambertian(tex), s, outward, outward, 0, rnd, 0,
               LambertianScatterOf(Lambertian(tex), a.rec, a.ray, rnd, 0))

MetalScatter ==
    /\ mat.pc = "idle"
    /\ \E fuzz \in 0..FuzzDen, dir \in Directions, outward \in Outward,
       time \in 0..1, rnd \in InUnitSphere :
        LET s == <<0, 0, <<0, 0, 0>>>>
            a == ScatterArgs(s, dir, outward, time)
            m == Metal(<<1, 1, 2>>, fuzz)
        IN ScatterCall(m, s, dir, outward, time, rnd, 0,
               MetalScatterOf(m, a.rec, a.ray, rnd, 0))

DielectricScatter ==
    /\ mat.pc = "idle"
    /\ \E ior \in Iors, dir \in Directions, outward \in Outward, time \in 0..1,
       sample \in Samples :
        LET s == <<0, 0, <<0, 0, 0>>>>
            a == ScatterArgs(s, dir, outward, time)
            m == Dielectric(ior)
        IN ScatterCall(m, s, dir, outward, time, <<0, 0, 0>>, sample,
               DielectricScatterOf(m, a.rec, a.ray, <<0, 0, 0>>, sample))

DiffuseLightScatter ==
    /\ mat.pc = "idle"
    /\ \E tex \in Textures, s \in Surface, dir \in Directions, outward \in Outward :
        LET a == ScatterArgs(s, dir, outward, 0)
        IN ScatterCall(DiffuseLight(tex), s, dir, outward, 0, <<0, 0, 0>>, 0,
               DiffuseLightScatterOf(DiffuseLight(tex), a.rec, a.ray, <<0, 0, 0>>, 0))

LambertianEmitted ==
    /\ mat.pc = "idle"
    /\ \E tex \in Textures, s \in Surface :
        EmittedCall(Lambertian(tex), s,
                    LambertianEmittedOf(Lambertian(tex), s[1], s[2], s[3]))

MetalEmitted ==
    /\ mat.pc = "idle"
    /\ \E fuzz \in 0..FuzzDen, s \in Surface :
        EmittedCall(Metal(<<1, 1, 2>>, fuzz), s,
                    MetalEmittedOf(Metal(<<1, 1, 2>>, fuzz), s[1], s[2], s[3]))

DielectricEmitted ==
    /\ mat.pc = "idle"
    /\ \E ior \in Iors, s \in Surface :
        EmittedCall(Dielectric(ior), s,
                    DielectricEmittedOf(Dielectric(ior), s[1], s[2], s[3]))

DiffuseLightEmitted ==
    /\ mat.pc = "idle"
    /\ \E tex \in Textures, s \in Surface :
        EmittedCall(DiffuseLight(tex), s,
                    DiffuseLightEmittedOf(DiffuseLight(tex), s[1], s[2], s[3]))

\* the integrator takes the result
MatReturn ==
    /\ mat.pc # "idle"
    /\ mat' = [pc |-> "idle"]
    /\ UNCHANGED <<list, wk>>

MatIdle == [pc |-> "idle"]

Init ==
    /\ InitList
    /\ mat = MatIdle

\* one tracing thread against the scene
NextScan ==
    \/ \E item \in Prims : push(item)
    \/ \E r \in Rays, t_min \in 0..1, t_max \in 2..MaxT : HitCall(1, r, t_min, t_max)
    \/ HitStep(1)
    \/ HitReturn(1)
    \/ \E t1 \in 0..1 : BoxCall(1, 0, t1)
    \/ BoxStep(1)
    \/ BoxReturn(1)
    \/ Finish(1)

Spec == Init /\ [][NextScan]_vars

\* independent tracing threads against the same scene
NextShared ==
    \/ \E item \in Prims : push(item)
    \/ \E w \in Workers, r \in Rays, t_min \in 0..1, t_max \in 2..MaxT :
          HitCall(w, r, t_min, t_max)
    \/ \E w \in Workers : HitStep(w)
    \/ \E w \in Workers : HitReturn(w)
    \/ \E w \in Workers : BoxCall(w, 0, 1)
    \/ \E w \in Workers : BoxStep(w)
    \/ \E w \in Workers : BoxReturn(w)
    \/ \E w \in Workers : Finish(w)

SpecShared == Init /\ [][NextShared]_vars

\* the integrator's calls on the materials
NextMat ==
    \/ LambertianScatter
    \/ MetalScatter
    \/ DielectricScatter
    \/ DiffuseLightScatter
    \/ LambertianEmitted
    \/ MetalEmitted
    \/ DielectricEmitted
    \/ DiffuseLightEmitted
    \/ MatReturn

SpecMat == Init /\ [][NextMat]_vars

(***************************************************************************)
(* Claims about HittableList.  Under Spec the calls are worker 1's.        *)
(***************************************************************************)
\* worker w has returned from hit
HitDone(w) == wk[w].pc = "done" /\ wk[w].op = "hit"
\* worker w has returned from bounding_box
BoxDone(w) == wk[w].pc = "done" /\ wk[w].op = "bounding_box"
\* what child i alone reports for worker w's query
ChildHit(w, i) == PrimHit(list[i], wk[w].r, wk[w].t_min, wk[w].t_max)

\* C1: hit returns the nearest intersection: a returned hit is one the
\* children report over (t_min, t_max) and its t is <= the t every child
\* reports there; nothing is returned exactly when no child reports a hit.
C1_Nearest ==
    HitDone(1) =>
        LET ret == wk[1].ret
            n == Len(list)
        IN /\ ~ret.some <=> \A i \in 1..n : ~ChildHit(1, i).some
           /\ ret.some =>
                /\ \E i \in 1..n : ChildHit(1, i) = ret
                /\ \A i \in 1..n :
                      ChildHit(1, i).some => ret.val.t <= ChildHit(1, i).val.t

\* a hit was returned although a later child reports a farther hit
C1_Witness ==
    /\ HitDone(1)
    /\ wk[1].ret.some
    /\ \E i \in 2..Len(list) :
          /\ ChildHit(1, i).some
          /\ ChildHit(1, i).val.t > wk[1].ret.val.t
          /\ ChildHit(1, 1).some

\* C2: a closest-hit query never returns a hit whose t lies outside the
\* caller's [t_min, t_max].
C2_InInterval ==
    HitDone(1) =>
        (wk[1].ret.some =>
            /\ wk[1].t_min <= wk[1].ret.val.t
            /\ wk[1].ret.val.t <= wk[1].t_max)

\* a hit was returned while some child also meets the ray beyond t_max
C2_Witness ==
    /\ HitDone(1)
    /\ wk[1].ret.some
    /\ \E i \in 1..Len(list) : \E t \in PrimRoots(list[i], wk[1].r) : t >= wk[1].t_max
    /\ \E i \in 1..Len(list) : \E t \in PrimRoots(list[i], wk[1].r) : t <= wk[1].t_min

\* the orders of the children of l
Perms(l) ==
    LET n == Len(l)
        bij == {f \in [1..n -> 1..n] : \A a, b \in 1..n : f[a] = f[b] => a = b}
    IN {[i \in 1..n |-> l[f[i]]] : f \in bij}

\* C3 as stated: for every order of the same children hit returns the same
\* record (same t, same object), ties included.
C3_OrderIndependent ==
    HitDone(1) =>
        \A l \in Perms(list) :
            HitList(l, wk[1].r, wk[1].t_min, wk[1].t_max) = wk[1].ret

\* two different children report the nearest t
TieAtNearest(w) ==
    \E i, j \in 1..Len(list) :
        /\ list[i] # list[j]
        /\ ChildHit(w, i).some /\ ChildHit(w, j).some
        /\ ChildHit(w, i).val.t = wk[w].ret.val.t
        /\ ChildHit(w, j).val.t = wk[w].ret.val.t

\* C3 amended: every order gives the same t (or no hit in every order); the
\* record is the same too unless two different children report that nearest
\* t, and then the one that comes first in the list is returned.
C3_OrderIndependentT ==
    HitDone(1) =>
        LET ret == wk[1].ret
        IN /\ \A l \in Perms(list) :
                LET h == HitList(l, wk[1].r, wk[1].t_min, wk[1].t_max)
                IN /\ h.some <=> ret.some
                   /\ ret.some => h.val.t = ret.val.t
                   /\ (ret.some /\ ~TieAtNearest(1)) => h = ret
           /\ ret.some =>
                \E i \in 1..Len(list) :
                    /\ ChildHit(1, i) = ret
                    /\ \A j \in 1..(i - 1) :
                          ChildHit(1, j).some => ChildHit(1, j).val.t > ret.val.t

\* a hit was returned from a list of three in which two different children tie
C3_Witness ==
    /\ HitDone(1)
    /\ wk[1].ret.some
    /\ Len(list) >= 3
    /\ TieAtNearest(1)

\* C4: bounding_box returns no box when the list is empty or any child, first
\* or later, has no box; otherwise the merge of all the children's boxes.
C4_BoundingBox ==
    BoxDone(1) =>
        LET n == Len(list)
            b(i) == PrimBox(list[i], wk[1].t_min, wk[1].t_max)
        IN IF n = 0 \/ \E i \in 1..n : ~b(i).some
           THEN wk[1].ret = None
           ELSE /\ wk[1].ret.some
                /\ \A k \in 1..3 :
                      /\ \A i \in 1..n : wk[1].ret.val.min[k] <= b(i).val.min[k]
                      /\ \E i \in 1..n : wk[1].ret.val.min[k] = b(i).val.min[k]
                      /\ \A i \in 1..n : wk[1].ret.val.max[k] >= b(i).val.max[k]
                      /\ \E i \in 1..n : wk[1].ret.val.max[k] = b(i).val.max[k]

\* a box merged from different children was returned
C4_Witness ==
    /\ BoxDone(1)
    /\ wk[1].ret.some
    /\ Len(list) >= 2
    /\ list[1] # list[2]

\* C9: while workers interleave their calls no step of a call changes the
\* list, and a call that returns, returns what the same call returns on that
\* list run alone.
C9_PureQueries ==
    [][/\ wk' # wk => list' = list
       /\ \A w \in Workers :
            wk'[w].pc = "done" =>
                wk'[w].ret =
                    IF wk'[w].op = "hit"
                    THEN HitList(list', wk'[w].r, wk'[w].t_min, wk'[w].t_max)
                    ELSE BoxList(list', wk'[w].t_min, wk'[w].t_max)]_vars

\* one worker has returned a hit while the other is in the middle of its scan
C9_Witness ==
    /\ HitDone(1)
    /\ wk[1].ret.some
    /\ wk[2].pc = "scan"
    /\ wk[2].i > 1 /\ wk[2].i <= Len(list)
    /\ wk[2].hit_obj.some
    /\ wk[2].t_max # wk[1].t_max

\* C10: the bound starts at t_max and never increases; child i is queried
\* over (t_min, bound), the bound being t_max while nothing was hit and the
\* t of the best hit after; the best hit is replaced only by a strictly
\* closer one.
C10_ShrinkingBound ==
    [][LET s == wk[1]
           n == wk'[1]
       IN /\ (s.pc = "idle" /\ n.pc = "scan") =>
                n.closest = n.t_max /\ ~n.hit_obj.some
          /\ (s.pc = "scan" /\ n.pc = "scan") =>
                /\ n.closest <= s.closest
                /\ s.closest = IF s.hit_obj.some THEN s.hit_obj.val.t ELSE s.t_max
                /\ n.q = <<s.i, s.t_min, s.closest>>
                /\ n.hit_obj # s.hit_obj =>
                      /\ n.hit_obj.some
                      /\ n.hit_obj.val.t < s.closest
                      /\ s.hit_obj.some => n.hit_obj.val.t < s.hit_obj.val.t]_vars

\* a later child, queried with a bound already shrunk, replaced the best hit
C10_Witness ==
    /\ wk[1].pc = "scan"
    /\ wk[1].q[1] >= 2
    /\ wk[1].q[3] < wk[1].t_max
    /\ wk[1].hit_obj.some
    /\ wk[1].hit_obj.val.t < wk[1].q[3]

(***************************************************************************)
(* Claims about the materials, under SpecMat.                              *)
(***************************************************************************)
\* the last call was scatter on a material of this kind
Scattered(kind) == mat.pc = "scatter" /\ mat.m.kind = kind
\* two vectors, each over its own denominator, are the same vector
SameVec(a, da, b, db) == Mul(a, db) = Mul(b, da)
\* the direction of the ray scatter returned is the vector b over db
Outgoing(b, db) == SameVec(mat.ret.val[1].direction, mat.ret.val[1].den, b, db)
\* the incoming unit direction and the cosine of the incidence angle
UnitIn == normalise(mat.ray.direction)
CosIn == Frac(Min(Dot(Neg(UnitIn), mat.rec.normal), Den * Den), Den * Den)
Cube == Den * Den * Den

\* C5: whenever Metal::scatter returns a ray, its direction (the mirror
\* reflection plus fuzz * random_in_unit_sphere) points away from the
\* surface: dot(direction, normal) > 0.
C5_MetalPointsAway ==
    (Scattered("Metal") /\ mat.ret.some) =>
        Dot(mat.ret.val[1].direction, mat.rec.normal) > 0

\* C6: Dielectric::scatter always returns a ray; with the ratio 1/ior on a
\* front face and ior otherwise, its direction is the reflection when
\* refraction is impossible, and otherwise the reflection when the sample is
\* below the Schlick reflectance of the material's ior, else the refraction.
C6_DielectricDirection ==
    Scattered("Dielectric") =>
        LET ior == mat.m.ior
            ratio == IF mat.rec.front_face THEN Frac(ior.den, ior.num) ELSE ior
            refracted == refract(UnitIn, mat.rec.normal, ratio)
            reflected == reflect(UnitIn, mat.rec.normal)
        IN /\ mat.ret.some
           /\ IF ~refracted.some THEN Outgoing(reflected, Cube)
              ELSE IF Below(mat.sample, schlick(CosIn, ior))
                   THEN Outgoing(reflected, Cube)
                   ELSE Outgoing(refracted.val, ratio.den * Cube)

\* glass entered at an oblique angle, the sample at or above the reflectance:
\* the ray is refracted, and bent
C6_Witness ==
    /\ Scattered("Dielectric")
    /\ mat.m.ior = Frac(3, 2)
    /\ mat.rec.front_face
    /\ CosIn.num < CosIn.den
    /\ refract(UnitIn, mat.rec.normal, Frac(2, 3)).some
    /\ ~Below(mat.sample, schlick(CosIn, mat.m.ior))
    /\ ~Outgoing(UnitIn, Den)
    /\ ~Outgoing(reflect(UnitIn, mat.rec.normal), Cube)

\* C7 as stated: with ior = 1 scatter always refracts with zero direction
\* change, whatever the ray, the record and the sample; at normal incidence
\* the reflectance is 0.
C7_AlwaysStraight ==
    (Scattered("Dielectric") /\ mat.m.ior = Frac(1, 1)) =>
        /\ Outgoing(UnitIn, Den)
        /\ CosIn.num = CosIn.den => schlick(CosIn, mat.m.ior).num = 0

\* (1 - cos)^5, the reflectance when r0 = 0
Grazing == Frac(Pow(CosIn.den - CosIn.num, 5), Pow(CosIn.den, 5))

\* C7 amended: with ior = 1 the ray goes straight on exactly when the sample
\* is at or above the reflectance (1 - cos)^5, and is mirrored when the sample
\* is below it; at normal incidence the reflectance is 0 and the ray always
\* goes straight on.
C7_StraightAboveReflectance ==
    (Scattered("Dielectric") /\ mat.m.ior = Frac(1, 1)) =>
        /\ ~Below(mat.sample, Grazing) => Outgoing(UnitIn, Den)
        /\ Below(mat.sample, Grazing) =>
              Outgoing(reflect(UnitIn, mat.rec.normal), Cube)
        /\ CosIn.num = CosIn.den =>
              /\ schlick(CosIn, mat.m.ior).num = 0
              /\ Outgoing(UnitIn, Den)

\* ior = 1 at an oblique angle, the sample at or above the reflectance: the
\* ray went straight on, where the mirror direction is another one
C7_Witness ==
    /\ Scattered("Dielectric")
    /\ mat.m.ior = Frac(1, 1)
    /\ 0 < CosIn.num /\ CosIn.num < CosIn.den
    /\ ~Below(mat.sample, Grazing)
    /\ Outgoing(UnitIn, Den)
    /\ ~Outgoing(reflect(UnitIn, mat.rec.normal), Cube)

\* C8: DiffuseLight::scatter returns nothing and DiffuseLight::emitted the
\* texture's value at (u, v, p); emitted of every other material is black.
C8_Emission ==
    /\ Scattered("DiffuseLight") => mat.ret = None
    /\ mat.pc = "emitted" =>
          mat.ret = IF mat.m.kind = "DiffuseLight"
                    THEN TextureValue(mat.m.emit, mat.u, mat.v, mat.p)
                    ELSE Black

\* a light with a texture that varies over the surface emitted a colour
C8_Witness ==
    /\ mat.pc = "emitted"
    /\ mat.m.kind = "DiffuseLight"
    /\ mat.m.emit.kind = "checker"
    /\ mat.ret # Black

====
